---- MODULE Spec2Model ----
(***************************************************************************)
(* The API gateway (src/cmd/api-gateway/main.go, lines 1-395) and the REST *)
(* API service that follows it in the same file (lines 397-658), as gin    *)
(* handler chains run by concurrently served requests.                     *)
(*                                                                         *)
(* A request is a gin.Context: the chain of handlers the router selected   *)
(* for it and the index of the handler that is running.  A middleware that *)
(* calls c.Next() and then does more work (logging, metrics) has a part    *)
(* before and a part after the rest of the chain; Abort ends the descent   *)
(* and only the parts after c.Next() of the handlers already entered run.  *)
(***************************************************************************)
EXTENDS Integers, Sequences, FiniteSets, TLC

VARIABLES
    req,      \* one gin.Context per connection being served
    tokens,   \* the rate.Limiter's bucket, in units of 1/TicksPerInterval token
    hist,     \* what the limiter decided since the bucket was last full / empty
    pg,       \* the postgres client: its transaction and application_configs
    mongo     \* the mongodb repositories: their documents

vars == <<req, tokens, hist, pg, mongo>>

\* ---------------------------------------------------------------- bounds
MaxSlots == 2           \* requests in flight at the same time
RateLimit == 2          \* config.RateLimit (the burst), scaled down
TicksPerInterval == 2   \* clock steps per config.RateLimitInterval
MaxTxCalls == 3         \* calls of ExecuteInTransaction that are followed
MaxConfigOps == 3       \* statements of the configuration service that are followed

Slots == 1..MaxSlots
BucketCap == RateLimit * TicksPerInterval
Min(a, b) == IF a < b THEN a ELSE b

\* ------------------------------------------------------- http statuses
StatusOK == 200
StatusUnauthorized == 401
StatusTooManyRequests == 429
StatusInternalServerError == 500
StatusServiceUnavailable == 503
StatusCreated == 201
StatusBadRequest == 400
StatusNotFound == 404
StatusConflict == 409

\* ------------------------------------------------- strings as characters
Bearer == <<"B", "e", "a", "r", "e", "r", " ">>
TokGood == <<"g">>
TokBad == <<"b">>
BasicAbc == <<"B", "a", "s", "i", "c", " ", "a", "b", "c">>

internalServerErrorMessage == <<"Internal Server Error">>

\* strings.TrimPrefix
TrimPrefix(s, p) ==
    IF Len(s) >= Len(p) /\ SubSeq(s, 1, Len(p)) = p
    THEN SubSeq(s, Len(p) + 1, Len(s))
    ELSE s

\* c.Request.URL.Path of a path given by its segments: "/" before every
\* segment; an empty last segment is the trailing slash
RECURSIVE PathString(_)
PathString(segs) ==
    IF segs = <<>> THEN <<>>
    ELSE (IF Head(segs) = "" THEN <<"/">> ELSE <<"/", Head(segs)>>) \o PathString(Tail(segs))

\* c.GetHeader("Authorization"): the first value, "" when there is none.
\* hdr is the list of values of the header (http.Header is a map to lists).
GetHeader(hdr) == IF hdr = <<>> THEN <<>> ELSE hdr[1]

NoHeader == <<>>

\* http.Header: the list of values of each header name
HeaderNames ==
    {"Authorization", "X-Request-Id", "X-User-ID",
     "X-Forwarded-For", "X-Forwarded-Proto", "X-Forwarded-Host"}
EmptyHeader == [n \in HeaderNames |-> <<>>]

\* Header.Set
HeaderSet(h, name, value) == [h EXCEPT ![name] = <<value>>]

\* copyHeaders: dst.Add(name, value) for every value of every name of src
copyHeaders(src, dst) == [n \in HeaderNames |-> dst[n] \o src[n]]
AuthHeaders ==
    { NoHeader, << <<>> >>, <<Bearer>>, <<Bearer \o TokGood>>,
      <<Bearer \o TokBad>>, <<BasicAbc>> }

\* The identity service: POST /validate answers 200 for the credentials it
\* knows and a non-200 status for every other one.
IdentityAccepts(credential) == credential = Bearer \o TokGood

\* ------------------------------------------------------ handler chains
\* router.Use(...) in main: the engine's handlers, in order.
EngineHandlersNoRecovery == <<"logging", "ratelimit", "metrics">>
EngineHandlers == <<"recovery", "logging", "ratelimit", "metrics">>

\* RouterGroup.Group copies the parent's handlers into a NEW group;
\* RouterGroup.Use appends to that group only.
Group(parentHandlers) == parentHandlers
Use(groupHandlers, h) == Append(groupHandlers, h)

\* authGroup := router.Group("/api"); authGroup.Use(authMiddleware(...))
AuthGroupHandlers == Use(Group(EngineHandlers), "auth")

\* registerRoutes: api := engine.Group("/api"), a second group made from
\* the engine; the routes are registered on it.
ApiGroupHandlers == Group(EngineHandlers)

\* the REST API service: router.Use(gin.Recovery()); router.Use(metrics)
ApiServerHandlers == <<"recovery", "metricsApi">>

\* handlers whose part before c.Next() touches nothing but their own locals
PreOnly == {"recovery", "logging", "metrics", "metricsApi"}

RECURSIVE NextDown(_, _)
NextDown(chain, i) ==
    IF i > Len(chain) THEN i
    ELSE IF chain[i] \notin PreOnly THEN i
    ELSE NextDown(chain, i + 1)

\* extractServiceFromPath (REST API service)
extractServiceFromPath(path) ==
    CASE path = "/metrics" -> "metrics"
      [] path = "/health" -> "health"
      [] path = "/api/deployments" -> "deployment"
      [] path = "/api/monitoring" -> "monitoring"
      [] path = "/api/configs" -> "configuration"
      [] OTHER -> "unknown"

\* loggingMiddleware after c.Next(): logger.Info("API Request", ...)
LoggingAfter(c) == [c EXCEPT !.logLines = @ + 1]

\* metricMiddleware of the gateway after c.Next(): one increment of
\* requestCounter (method, path, status), one sample of requestDuration
MetricsAfter(c) ==
    [c EXCEPT !.obs = Append(@, <<c.method, c.fullPath, c.status>>),
              !.samples = Append(@, <<c.method, c.fullPath>>)]

\* metricsMiddleware of the REST API service after c.Next():
\* labels service, method, status
MetricsApiAfter(c) ==
    LET service == extractServiceFromPath(c.fullPath)
    IN [c EXCEPT !.obs = Append(@, <<service, c.method, c.status>>),
                 !.samples = Append(@, <<service, c.method>>)]

\* what handler h does once its c.Next() has returned
After(h, c) ==
    CASE h = "logging" -> LoggingAfter(c)
      [] h = "metrics" -> MetricsAfter(c)
      [] h = "metricsApi" -> MetricsApiAfter(c)
      [] OTHER -> c

\* the handler at index i has returned: the handlers entered before it
\* resume after their c.Next(), innermost first, and the request is done.
\* When no route matched and no handler wrote, the engine then writes the
\* 404 (serveError).
RECURSIVE Unwind(_, _)
Unwind(c, i) ==
    IF i <= 1
    THEN [c EXCEPT !.pc = "done", !.idx = 0,
                   !.responses = IF c.route = "" /\ @ = 0 THEN 1 ELSE @]
    ELSE Unwind(After(c.chain[i - 1], c), i - 1)

\* c.Next() from the handler at index i
Proceed(c, i) ==
    LET j == NextDown(c.chain, i + 1)
    IN IF j <= Len(c.chain) THEN [c EXCEPT !.pc = "down", !.idx = j]
       ELSE Unwind(c, j)

\* c.AbortWithStatusJSON(code, ...) followed by return, at index i
AbortWithStatusGoesOn(c, i, code) ==
    Proceed([c EXCEPT !.status = code, !.responses = @ + 1], i)
AbortWithStatus(c, i, code) ==
    Unwind([c EXCEPT !.status = code, !.aborted = TRUE, !.responses = @ + 1], i)

\* the handler at index i panics.  The stack unwinds to the innermost
\* deferred recover below it: gin.Recovery() answers c.AbortWithStatus(500)
\* and returns, the parts after c.Next() of the handlers between it and the
\* panic never run.  With no Recovery in the chain the panic reaches
\* net/http's own recover, which closes the connection without a response.
Recover(c, i) ==
    LET R == { j \in 1..(i - 1) : c.chain[j] = "recovery" }
        p == [c EXCEPT !.panicked = TRUE]
    IN IF R = {} THEN [p EXCEPT !.pc = "done", !.idx = 0]
       ELSE LET r == CHOOSE j \in R : \A k \in R : k <= j
            IN Unwind([p EXCEPT !.status = StatusInternalServerError,
                                !.aborted = TRUE, !.responses = @ + 1], r)

\* ---------------------------------------------------------- route tables
\* routes in main, with routePath = TrimPrefix(PathBase, "/api") + "/*path"
\* as registered on the /api group
ServiceRoutes ==
    << [Name |-> "API Service", PathBase |-> <<"api", "v1">>,
        URL |-> <<"http://api-service:8080">>,
        FullPath |-> "/api/v1/*path", Methods |-> {"GET", "POST", "PUT", "DELETE"}],
       [Name |-> "Deployment Service", PathBase |-> <<"api", "v1", "deployments">>,
        URL |-> <<"http://deployment-service:8080">>,
        FullPath |-> "/api/v1/deployments/*path", Methods |-> {"GET", "POST", "PUT", "DELETE"}],
       [Name |-> "Monitoring Service", PathBase |-> <<"api", "v1", "monitoring">>,
        URL |-> <<"http://monitoring-service:8080">>,
        FullPath |-> "/api/v1/monitoring/*path", Methods |-> {"GET"}],
       [Name |-> "Configuration Service", PathBase |-> <<"api", "v1", "configs">>,
        URL |-> <<"http://configuration-service:8080">>,
        FullPath |-> "/api/v1/configs/*path", Methods |-> {"GET", "POST", "PUT", "DELETE"}] >>

\* the route of the gateway called name
RouteNamed(name) ==
    ServiceRoutes[CHOOSE i \in 1..Len(ServiceRoutes) : ServiceRoutes[i].Name = name]

\* the REST API service's upstreams: ServiceConfig's URLs, read from the
\* environment
TargetBaseUrl(service) ==
    CASE service = "deployments" -> <<"$DEPLOYMENT_SERVICE_URL">>
      [] service = "monitoring" -> <<"$MONITORING_SERVICE_URL">>
      [] service = "configs" -> <<"$CONFIG_SERVICE_URL">>

Entry(method, base, catchAll, full, name, handlers) ==
    [method |-> method, base |-> base, catchAll |-> catchAll,
     fullPath |-> full, name |-> name, handlers |-> handlers]

\* registerRoutes: one entry per route and method, handlers of the group
\* the route is registered on followed by createProxyHandler(route)
RegisterRoutes(groupHandlers) ==
    { Entry(m, ServiceRoutes[i].PathBase, TRUE, ServiceRoutes[i].FullPath,
            ServiceRoutes[i].Name, Append(groupHandlers, "proxy")) :
        i \in 1..Len(ServiceRoutes), m \in {"GET", "POST", "PUT", "DELETE"} }

RegisteredRoutes(groupHandlers) ==
    { e \in RegisterRoutes(groupHandlers) :
        \E i \in 1..Len(ServiceRoutes) :
            ServiceRoutes[i].Name = e.name /\ e.method \in ServiceRoutes[i].Methods }

\* the gateway's router after main has run
GatewayTable ==
    { Entry("GET", <<"health">>, FALSE, "/health", "health", Append(EngineHandlers, "health")),
      Entry("GET", <<"metrics">>, FALSE, "/metrics", "metrics", Append(EngineHandlers, "promhttp")) }
    \cup RegisteredRoutes(ApiGroupHandlers)

AnyMethods == {"GET", "POST", "PUT", "PATCH", "DELETE", "HEAD", "OPTIONS"}

\* the REST API service's router: r.Any("/deployments/*proxyPath", ...) and
\* the two others on router.Group("/api/v1")
ApiServerTable ==
    { Entry("GET", <<"health">>, FALSE, "/health", "health", Append(ApiServerHandlers, "health")),
      Entry("GET", <<"metrics">>, FALSE, "/metrics", "metrics", Append(ApiServerHandlers, "promhttp")) }
    \cup { Entry(m, <<"api", "v1", s>>, TRUE, "/api/v1/" \o s \o "/*proxyPath", s,
                 Append(Group(ApiServerHandlers), "proxyRequest")) :
             m \in AnyMethods, s \in {"deployments", "monitoring", "configs"} }

IsPrefix(p, s) == Len(p) <= Len(s) /\ SubSeq(s, 1, Len(p)) = p

\* the entries of a table whose method and path pattern fit the request.
\* The gateway registers /api/v1/*path together with catch-alls below it
\* (/api/v1/configs/*path, ...); which of two fitting entries the router
\* serves is not decided by this repository, so every fitting entry is one.
Match(table, method, path) ==
    { e \in table :
        /\ e.method = method
        /\ IF e.catchAll THEN IsPrefix(e.base, path) /\ Len(path) > Len(e.base)
           ELSE path = e.base }

\* gin's RedirectTrailingSlash (on by default): no entry fits the path, and
\* one would fit the path followed by "/"
TrailingSlash(table, method, path) ==
    /\ Match(table, method, path) = {}
    /\ path # <<>>
    /\ path[Len(path)] # ""
    /\ Match(table, method, Append(path, "")) # {}

\* ---------------------------------------------------------- the context
\* the outbound request of a context that has built none
NoOut == [method |-> "", url |-> <<>>, header |-> EmptyHeader]

\* the connection of a request: the peer's address, the Host header, the
\* scheme the client spoke and the form of the request target it sent
\* ("origin": a path and query, "absolute": a whole URL)
DefaultConn ==
    [remote |-> "10.0.0.9", host |-> "gateway.example", scheme |-> "http",
     form |-> "origin"]

IdleCtx ==
    [pc |-> "idle", method |-> "", path |-> <<>>, hdr |-> <<>>,
     fullPath |-> "", chain |-> <<>>, idx |-> 0, status |-> 0,
     aborted |-> FALSE, user |-> "none", admitted |-> "unchecked",
     credential |-> <<>>, idCalls |-> 0, upCalls |-> 0, upErr |-> FALSE,
     logLines |-> 0, obs |-> <<>>, samples |-> <<>>, errLog |-> "",
     query |-> <<>>, route |-> "", base |-> <<>>, param |-> <<>>, out |-> NoOut,
     responses |-> 0, conn |-> DefaultConn, xRequestId |-> <<>>,
     panicked |-> FALSE, sawPanic |-> FALSE, body |-> <<>>, cancelledAt |-> "",
     timedOut |-> FALSE, xUserId |-> <<>>]

\* engine.handleHTTPRequest: the context of a request that matched entry e
\* (the writer's status starts at 200)
Routed(in, e) ==
    Proceed([IdleCtx EXCEPT !.method = in.method, !.path = in.path, !.hdr = in.hdr,
                            !.query = in.query, !.conn = in.conn,
                            !.xRequestId = in.xRequestId, !.xUserId = in.xUserId,
                            !.fullPath = e.fullPath, !.chain = e.handlers,
                            !.route = e.name, !.base = e.base,
                            !.param = IF e.catchAll
                                      THEN PathString(SubSeq(in.path, Len(e.base) + 1,
                                                             Len(in.path)))
                                      ELSE <<>>,
                            !.status = StatusOK], 0)

\* no entry matched: the engine's handlers run with the status preset to
\* 404 Not Found (gin's default NoRoute), c.FullPath() is ""
NoRoute(in, engineHandlers) ==
    Proceed([IdleCtx EXCEPT !.method = in.method, !.path = in.path, !.hdr = in.hdr,
                            !.query = in.query, !.conn = in.conn,
                            !.xRequestId = in.xRequestId, !.xUserId = in.xUserId,
                            !.fullPath = "", !.chain = engineHandlers,
                            !.status = 404], 0)

\* redirectTrailingSlash: the router answers with a redirect to the path
\* followed by "/" (301 for GET, 307 otherwise); no handler runs
Redirected(in) ==
    [IdleCtx EXCEPT !.pc = "done", !.method = in.method, !.path = in.path,
                    !.hdr = in.hdr, !.query = in.query, !.responses = 1,
                    !.conn = in.conn, !.xRequestId = in.xRequestId,
                    !.xUserId = in.xUserId,
                    !.status = IF in.method = "GET" THEN 301 ELSE 307]

\* a request without query string, with one X-Request-Id header and no
\* X-User-ID header
In(method, path, hdr) ==
    [method |-> method, path |-> path, hdr |-> hdr, query |-> <<>>,
     conn |-> DefaultConn, xRequestId |-> <<"r1">>, xUserId |-> <<>>]

\* the same request with the header X-User-ID: v
WithUserId(in, v) == [in EXCEPT !.xUserId = <<v>>]

\* the same request with RawQuery q
WithQuery(in, q) == [in EXCEPT !.query = q]

\* the requests sent to the gateway
GatewayInbound ==
    { In("GET", <<"health">>, NoHeader),
      In("GET", <<"metrics">>, NoHeader),
      In("GET", <<"nope">>, NoHeader) }
    \cup { In("GET", <<"api", "v1", "items">>, h) :
             h \in {NoHeader, <<Bearer \o TokGood>>, <<Bearer \o TokBad>>} }
    \cup { WithUserId(In("GET", <<"api", "v1", "items">>, NoHeader), "u2") }

\* a load of health probes, calls of a proxied route and calls of no route
LoadInbound ==
    { In("GET", <<"health">>, NoHeader),
      In("GET", <<"nope">>, NoHeader),
      In("GET", <<"api", "v1", "items">>, NoHeader) }

\* requests for the proxied routes of the gateway: below a prefix, at a
\* prefix, with a query string, with methods a route does not list
RoutingInbound ==
    { WithQuery(In("GET", <<"api", "v1", "configs", "c1">>, NoHeader), <<"x=1">>),
      In("GET", <<"api", "v1", "items">>, NoHeader),
      In("GET", <<"api", "v1", "configs">>, NoHeader),
      In("GET", <<"api", "v1">>, NoHeader),
      In("GET", <<"api", "v1", "">>, NoHeader),
      In("POST", <<"api", "v1", "monitoring", "m1">>, NoHeader),
      In("PATCH", <<"api", "v1", "items">>, NoHeader),
      In("GET", <<"nope">>, NoHeader) }

\* the requests sent to the REST API service
ApiServerInbound ==
    { In("GET", <<"health">>, NoHeader),
      In("GET", <<"metrics">>, NoHeader),
      In("GET", <<"nope">>, NoHeader),
      In("GET", <<"api", "v1", "deployments", "d1">>, NoHeader),
      WithQuery(In("GET", <<"api", "v1", "deployments", "d1">>, NoHeader), <<"x=1">>),
      In("POST", <<"api", "v1", "configs", "c1">>, NoHeader) }

\* the requests run through authGroup's handlers
AuthGroupInbound ==
    { In("GET", <<"api", "v1", "items">>, h) : h \in AuthHeaders }

\* requests with a Bearer credential, for which the identity service is called
AuthCallInbound ==
    { In("GET", <<"api", "v1", "items">>, h) :
        h \in { <<Bearer \o TokGood>>, <<Bearer \o TokBad>> } }

\* ---------------------------------------------------------- rate limiter
\* rate.NewLimiter(rate.Every(interval), rps): a bucket of rps tokens that
\* gains one token per interval, continuously.  Allow() takes the lock,
\* and withdraws one whole token if there is one.
AllowOK(t) == t >= TicksPerInterval

AllowTokensKeeps(t) == t
AllowTokens(t) == IF AllowOK(t) THEN t - TicksPerInterval ELSE t

\* the bucket after one clock step (1/TicksPerInterval of the interval)
RefillWhole(t) == BucketCap
Refill(t) == Min(BucketCap, t + 1)

\* History of the limiter, kept to state what it did:
\*   avail, admitted   whole tokens in the bucket after the last clock step,
\*                     and the requests admitted since
\*   fullTicks, fullChecks, fullAdmits
\*                     since the bucket was last full: clock steps (frozen at
\*                     TicksPerInterval, a whole interval), calls of Allow and
\*                     admissions among them
\*   anch, eTicks, eChecks, eAdmits
\*                     since a call of Allow found the bucket empty: clock
\*                     steps, then the calls made once exactly one interval
\*                     has passed, and the admissions since the anchor
InitHist ==
    [avail |-> RateLimit, admitted |-> 0,
     fullTicks |-> 0, fullChecks |-> 0, fullAdmits |-> 0,
     anch |-> FALSE, eTicks |-> 0, eChecks |-> 0, eAdmits |-> 0]

B2N(b) == IF b THEN 1 ELSE 0

HistCheck(h, t, ok) ==
    LET h1 == [h EXCEPT !.admitted = Min(@ + B2N(ok), RateLimit + 1)]
        h2 == IF h1.fullTicks < TicksPerInterval
              THEN [h1 EXCEPT !.fullChecks = Min(@ + 1, RateLimit + 1),
                              !.fullAdmits = Min(@ + B2N(ok), RateLimit + 1)]
              ELSE h1
    IN  IF ~ok /\ t = 0 /\ (~h2.anch \/ h2.eTicks = 0)
        THEN [h2 EXCEPT !.anch = TRUE, !.eTicks = 0, !.eChecks = 0, !.eAdmits = 0]
        ELSE IF h2.anch /\ h2.eTicks = TicksPerInterval
        THEN [h2 EXCEPT !.eChecks = Min(@ + 1, 2), !.eAdmits = Min(@ + B2N(ok), 2)]
        ELSE IF h2.anch
        THEN [h2 EXCEPT !.eAdmits = Min(@ + B2N(ok), 2)]
        ELSE h2

HistTick(h, t2) ==
    LET h1 == [h EXCEPT !.avail = t2 \div TicksPerInterval, !.admitted = 0]
        h2 == IF t2 = BucketCap
              THEN [h1 EXCEPT !.fullTicks = 0, !.fullChecks = 0, !.fullAdmits = 0]
              ELSE [h1 EXCEPT !.fullTicks = Min(@ + 1, TicksPerInterval)]
    IN  IF h2.anch
        THEN IF h2.eTicks < TicksPerInterval
             THEN [h2 EXCEPT !.eTicks = @ + 1]
             ELSE [h2 EXCEPT !.anch = FALSE, !.eTicks = 0, !.eChecks = 0, !.eAdmits = 0]
        ELSE h2

\* statuses an upstream answers with; they are relayed as they are
UpstreamStatuses == {StatusOK, StatusServiceUnavailable}

\* --------------------------------------------------------------- actions
Running(s, h) ==
    /\ req[s].pc = "down"
    /\ req[s].chain[req[s].idx] = h

Free(s) == req[s].pc \in {"idle", "done"}

\* engine.handleHTTPRequest of the gateway for a request drawn from inbound
ArriveFrom(inbound, s) ==
    /\ Free(s)
    /\ \E in \in inbound :
         LET M == Match(GatewayTable, in.method, in.path)
         IN IF TrailingSlash(GatewayTable, in.method, in.path)
            THEN req' = [req EXCEPT ![s] = Redirected(in)]
            ELSE IF M = {}
            THEN req' = [req EXCEPT ![s] = NoRoute(in, EngineHandlers)]
            ELSE \E e \in M :
                   req' = [req EXCEPT ![s] =
                             [Routed(in, e) EXCEPT
                                 !.sawPanic = \E t \in Slots : req[t].panicked]]
    /\ UNCHANGED <<tokens, hist, pg, mongo>>

\* a request reaches the gateway's router
Arrive(s) == ArriveFrom(GatewayInbound, s)

\* the gateway under the load of LoadInbound
ArriveLoad(s) == ArriveFrom(LoadInbound, s)

\* the gateway receiving the requests of RoutingInbound
ArriveRouting(s) == ArriveFrom(RoutingInbound, s)

\* calls of a proxied route, some of which meet a panic
PanicInbound == { In("GET", <<"api", "v1", "items">>, NoHeader) }

ArrivePanic(s) == ArriveFrom(PanicInbound, s)

\* the handler that is running, or waiting for its upstream, panics
Panic(s) ==
    /\ req[s].pc \in {"down", "callUp"}
    /\ req' = [req EXCEPT ![s] = Recover(@, @.idx)]
    /\ UNCHANGED <<tokens, hist, pg, mongo>>

\* a request reaches the REST API service's router
ArriveApiServer(s) ==
    /\ Free(s)
    /\ \E in \in ApiServerInbound :
         LET M == Match(ApiServerTable, in.method, in.path)
         IN IF TrailingSlash(ApiServerTable, in.method, in.path)
            THEN req' = [req EXCEPT ![s] = Redirected(in)]
            ELSE IF M = {}
            THEN req' = [req EXCEPT ![s] = NoRoute(in, ApiServerHandlers)]
            ELSE \E e \in M : req' = [req EXCEPT ![s] = Routed(in, e)]
    /\ UNCHANGED <<tokens, hist, pg, mongo>>

\* a request drawn from inbound is run through authGroup's handlers
\* followed by the proxy handler of the API Service route
ArriveAuthFrom(inbound, s) ==
    /\ Free(s)
    /\ \E in \in inbound :
         req' = [req EXCEPT ![s] =
                   Routed(in, Entry(in.method, <<"api", "v1">>, TRUE, "/api/v1/*path",
                                    "API Service", Append(AuthGroupHandlers, "proxy")))]
    /\ UNCHANGED <<tokens, hist, pg, mongo>>

\* authGroup's handlers on the requests of AuthGroupInbound
ArriveAuthGroup(s) == ArriveAuthFrom(AuthGroupInbound, s)

\* authGroup's handlers on the requests of AuthCallInbound
ArriveAuthCall(s) == ArriveAuthFrom(AuthCallInbound, s)

\* authGroup's handlers on requests with a credential the identity
\* service accepts
ArriveAuthGood(s) ==
    ArriveAuthFrom({ In("GET", <<"api", "v1", "items">>, <<Bearer \o TokGood>>) }, s)

\* rateLimitMiddleware
RateLimitStep(s) ==
    /\ Running(s, "ratelimit")
    /\ LET c == req[s]
           ok == AllowOK(tokens)
       IN /\ tokens' = AllowTokens(tokens)
          /\ hist' = HistCheck(hist, tokens, ok)
          /\ req' = [req EXCEPT ![s] =
                IF ok THEN Proceed([c EXCEPT !.admitted = "yes"], c.idx)
                ELSE AbortWithStatus([c EXCEPT !.admitted = "no",
                                               !.body = <<"Rate limit exceeded">>], c.idx,
                                     StatusTooManyRequests)]
    /\ UNCHANGED <<pg, mongo>>

\* time passes: 1/TicksPerInterval of the refill interval
Tick ==
    /\ tokens' = Refill(tokens)
    /\ hist' = HistTick(hist, tokens')
    /\ UNCHANGED <<req, pg, mongo>>

\* the context of an outbound call is done: both calls are made with a
\* context derived from c.Request.Context(), which the server cancels when
\* the client's connection closes; client.Do then returns an error
CallContextNeverDone(c) == FALSE
CallContextDone(c) == c.cancelledAt # ""

\* the client closes its connection while an outbound call is in flight
ClientDisconnects(s) ==
    /\ req[s].pc \in {"callId", "callUp"}
    /\ req[s].cancelledAt = ""
    /\ req' = [req EXCEPT ![s] = [@ EXCEPT !.cancelledAt = req[s].pc]]
    /\ UNCHANGED <<tokens, hist, pg, mongo>>

\* authMiddleware up to client.Do
AuthStep(s) ==
    /\ Running(s, "auth")
    /\ LET c == req[s]
           token == TrimPrefix(GetHeader(c.hdr), Bearer)
       IN req' = [req EXCEPT ![s] =
                IF token = <<>>
                THEN AbortWithStatus([c EXCEPT !.errLog = "Missing authentication token",
                                               !.body = <<"Unauthorized: Missing token">>],
                                     c.idx, StatusUnauthorized)
                ELSE [c EXCEPT !.pc = "callId", !.idCalls = @ + 1,
                               !.credential = Bearer \o token]]
    /\ UNCHANGED <<tokens, hist, pg, mongo>>

\* client.Do returned an error (refused, timeout of 5 s, cancelled)
AuthTransportError(s) ==
    /\ req[s].pc = "callId"
    /\ req' = [req EXCEPT ![s] =
                AbortWithStatus([@ EXCEPT !.errLog = "Auth service request failed",
                                          !.body = internalServerErrorMessage],
                                @.idx, StatusInternalServerError)]
    /\ UNCHANGED <<tokens, hist, pg, mongo>>

\* the identity service answered with a status other than 200
AuthRejected(s) ==
    /\ req[s].pc = "callId"
    /\ ~CallContextDone(req[s])
    /\ ~IdentityAccepts(req[s].credential)
    /\ req' = [req EXCEPT ![s] =
                AbortWithStatus([@ EXCEPT !.errLog = "Authentication failed",
                                          !.body = <<"Unauthorized">>],
                                @.idx, StatusUnauthorized)]
    /\ UNCHANGED <<tokens, hist, pg, mongo>>

\* 200 with a body that does not decode into a map
AuthDecodeError(s) ==
    /\ req[s].pc = "callId"
    /\ ~CallContextDone(req[s])
    /\ IdentityAccepts(req[s].credential)
    /\ req' = [req EXCEPT ![s] =
                AbortWithStatus([@ EXCEPT !.errLog = "Failed to decode auth response",
                                          !.body = internalServerErrorMessage],
                                @.idx, StatusInternalServerError)]
    /\ UNCHANGED <<tokens, hist, pg, mongo>>

\* 200 with claims: c.Set("user", claims); c.Next()
AuthAccepted(s) ==
    /\ req[s].pc = "callId"
    /\ ~CallContextDone(req[s])
    /\ IdentityAccepts(req[s].credential)
    /\ \E claims \in {"sub:u1", "nosub"} :
         req' = [req EXCEPT ![s] = Proceed([@ EXCEPT !.user = claims], @.idx)]
    /\ UNCHANGED <<tokens, hist, pg, mongo>>

\* router.GET("/health", ...)
Health(s) ==
    /\ Running(s, "health")
    /\ req' = [req EXCEPT ![s] =
                Unwind([@ EXCEPT !.status = StatusOK, !.responses = @ + 1], @.idx)]
    /\ UNCHANGED <<tokens, hist, pg, mongo>>

\* router.GET("/metrics", promhttp handler)
Promhttp(s) ==
    /\ Running(s, "promhttp")
    /\ req' = [req EXCEPT ![s] =
                Unwind([@ EXCEPT !.status = StatusOK, !.responses = @ + 1], @.idx)]
    /\ UNCHANGED <<tokens, hist, pg, mongo>>

\* createProxyHandler: the target of the outbound request
TargetURL(route, c) ==
    LET path == TrimPrefix(PathString(c.path), PathString(route.PathBase))
        targetURL == route.URL \o path
    IN IF c.query # <<>> THEN targetURL \o <<"?">> \o c.query ELSE targetURL

\* c.Request.Header
RequestHeader(c) ==
    [EmptyHeader EXCEPT !["Authorization"] = c.hdr, !["X-Request-Id"] = c.xRequestId,
                        !["X-User-ID"] = c.xUserId]

\* c.Request.URL.Scheme: the server parses the request target, and a target
\* in origin form has no scheme
RequestURLScheme(c) == IF c.conn.form = "absolute" THEN c.conn.scheme ELSE ""

\* c.ClientIP() of a request without X-Forwarded-For and X-Real-Ip headers
ClientIP(c) == c.conn.remote

\* forwardUserContext: X-User-ID is set when the claims hold a string "sub"
forwardUserContext(c, header) ==
    IF c.user = "sub:u1" THEN HeaderSet(header, "X-User-ID", "u1") ELSE header

\* addForwardedHeaders
addForwardedHeaders(c, header) ==
    HeaderSet(HeaderSet(HeaderSet(header,
        "X-Forwarded-For", ClientIP(c)),
        "X-Forwarded-Proto", RequestURLScheme(c)),
        "X-Forwarded-Host", c.conn.host)

\* createProxyHandler: http.NewRequestWithContext(ctx, method, targetURL, body)
\* and the three header steps
OutReq(route, c) ==
    [method |-> c.method, url |-> TargetURL(route, c),
     header |-> addForwardedHeaders(c, forwardUserContext(c,
                    copyHeaders(RequestHeader(c), EmptyHeader)))]

\* createProxyHandler up to client.Do(outReq)
Proxy(s) ==
    /\ Running(s, "proxy")
    /\ LET c == req[s]
       IN req' = [req EXCEPT ![s] = [c EXCEPT !.pc = "callUp", !.upCalls = @ + 1,
                                              !.out = OutReq(RouteNamed(c.route), c)]]
    /\ UNCHANGED <<tokens, hist, pg, mongo>>

\* createProxyHandler: the upstream answered, status and body are relayed
ProxyRelays(s) ==
    /\ req[s].pc = "callUp"
    /\ ~CallContextDone(req[s])
    /\ req[s].chain[req[s].idx] = "proxy"
    /\ \E code \in UpstreamStatuses :
         req' = [req EXCEPT ![s] =
                   Unwind([@ EXCEPT !.status = code, !.responses = @ + 1], @.idx)]
    /\ UNCHANGED <<tokens, hist, pg, mongo>>

\* createProxyHandler: client.Do returned an error
ProxyFailStatus == StatusServiceUnavailable

ProxyFails(s) ==
    /\ req[s].pc = "callUp"
    /\ req[s].chain[req[s].idx] = "proxy"
    /\ req' = [req EXCEPT ![s] =
                Unwind([@ EXCEPT !.status = ProxyFailStatus, !.upErr = TRUE,
                                 !.responses = @ + 1,
                                 !.body = <<"Service Unavailable">>,
                                 !.errLog = "Proxy request failed"], @.idx)]
    /\ UNCHANGED <<tokens, hist, pg, mongo>>

\* the outbound calls that carry a deadline: the identity call is made
\* with context.WithTimeout(..., 5*time.Second), the upstream call by an
\* http.Client with Timeout: 30 * time.Second
CallHasNoDeadline(call) == FALSE
CallHasDeadline(call) == call \in {"callId", "callUp"}

\* the identity service has not answered within 5 s: client.Do returns
\* the context's deadline error
AuthTimesOut(s) ==
    /\ req[s].pc = "callId"
    /\ CallHasDeadline("callId")
    /\ req' = [req EXCEPT ![s] =
                AbortWithStatus([@ EXCEPT !.errLog = "Auth service request failed",
                                          !.body = internalServerErrorMessage,
                                          !.timedOut = TRUE],
                                @.idx, StatusInternalServerError)]
    /\ UNCHANGED <<tokens, hist, pg, mongo>>

\* the upstream has not answered within 30 s: client.Do returns the
\* client's timeout error
ProxyTimesOut(s) ==
    /\ req[s].pc = "callUp"
    /\ req[s].chain[req[s].idx] = "proxy"
    /\ CallHasDeadline("callUp")
    /\ req' = [req EXCEPT ![s] =
                Unwind([@ EXCEPT !.status = ProxyFailStatus, !.upErr = TRUE,
                                 !.responses = @ + 1,
                                 !.body = <<"Service Unavailable">>,
                                 !.errLog = "Proxy request failed",
                                 !.timedOut = TRUE], @.idx)]
    /\ UNCHANGED <<tokens, hist, pg, mongo>>

\* ServiceClient.proxyRequest: the target of the outbound request
ProxyRequestTargetURL(targetBaseUrl, c) ==
    LET proxyPath == c.param
        targetURL == targetBaseUrl \o proxyPath
    IN IF c.query # <<>> THEN targetBaseUrl \o <<"?">> \o c.query ELSE targetURL

\* ServiceClient.proxyRequest: http.NewRequestWithContext(ctx, method, targetURL, body)
\* and req.Header = c.Request.Header.Clone()
ProxyRequestOutReq(targetBaseUrl, c) ==
    [method |-> c.method, url |-> ProxyRequestTargetURL(targetBaseUrl, c),
     header |-> RequestHeader(c)]

\* ServiceClient.proxyRequest up to client.Do(req)
ProxyRequest(s) ==
    /\ Running(s, "proxyRequest")
    /\ LET c == req[s]
       IN req' = [req EXCEPT ![s] =
                    [c EXCEPT !.pc = "callUp", !.upCalls = @ + 1,
                              !.out = ProxyRequestOutReq(TargetBaseUrl(c.route), c)]]
    /\ UNCHANGED <<tokens, hist, pg, mongo>>

\* ServiceClient.proxyRequest: the upstream answered
ProxyRequestRelays(s) ==
    /\ req[s].pc = "callUp"
    /\ ~CallContextDone(req[s])
    /\ req[s].chain[req[s].idx] = "proxyRequest"
    /\ \E code \in UpstreamStatuses :
         req' = [req EXCEPT ![s] =
                   Unwind([@ EXCEPT !.status = code, !.responses = @ + 1], @.idx)]
    /\ UNCHANGED <<tokens, hist, pg, mongo>>

\* ServiceClient.proxyRequest: client.Do returned an error
ProxyRequestFailStatus == StatusInternalServerError

ProxyRequestFails(s) ==
    /\ req[s].pc = "callUp"
    /\ req[s].chain[req[s].idx] = "proxyRequest"
    /\ req' = [req EXCEPT ![s] =
                Unwind([@ EXCEPT !.status = ProxyRequestFailStatus, !.upErr = TRUE,
                                 !.responses = @ + 1,
                                 !.body = <<"Service Unavailable: ">> \o
                                          TargetBaseUrl(req[s].route),
                                 !.errLog = "Proxy request failed"], @.idx)]
    /\ UNCHANGED <<tokens, hist, pg, mongo>>

\* ------------------------------------------------------ postgres client
\* a call of ExecuteInTransaction that has not started
NoTx ==
    [pc |-> "idle", fn |-> "none", commits |-> 0, rollbacks |-> 0,
     committed |-> FALSE, err |-> "none", ret |-> "none"]

\* no updateApplicationConfig between its UPDATE and its SELECT
NoUpd ==
    [hdr |-> "", name |-> "", namespace |-> "", data |-> "", rows |-> {}, at |-> 0]

InitPg ==
    [tx |-> NoTx, log |-> <<>>,
     configs |-> {}, nextId |-> 1, ops |-> <<>>, upd |-> NoUpd]

\* no document, and no update yet
NoDoc == [name |-> ""]

InitMongo ==
    [applications |-> NoDoc, clusters |-> NoDoc,
     last |-> [collection |-> "", update |-> <<>>, before |-> NoDoc,
               after |-> NoDoc, err |-> ""],
     validated |-> [struct |-> NoDoc, err |-> ""]]

\* the value the caller receives when the deferred function has assigned
\* err: the result of ExecuteInTransaction is unnamed, "return err" has
\* copied err before the deferred function runs
Returned(ret, err) == ret

\* c.db.BeginTx(ctx, nil)
TxBegin ==
    /\ pg.tx.pc = "idle"
    /\ Len(pg.log) < MaxTxCalls
    /\ \E ok \in BOOLEAN :
         pg' = [pg EXCEPT !.tx =
                  IF ok THEN [NoTx EXCEPT !.pc = "began"]
                  ELSE [NoTx EXCEPT !.pc = "returned", !.err = "begin", !.ret = "begin"]]
    /\ UNCHANGED <<req, tokens, hist, mongo>>

\* err = fn(tx); return err -- fn returns nil, returns an error or panics
TxFn ==
    /\ pg.tx.pc = "began"
    /\ \E r \in {"nil", "fn", "panic"} :
         pg' = [pg EXCEPT !.tx =
                  [@ EXCEPT !.pc = "deferred", !.fn = r,
                            !.err = IF r = "panic" THEN "none" ELSE r,
                            !.ret = IF r = "panic" THEN "none" ELSE r]]
    /\ UNCHANGED <<req, tokens, hist, mongo>>

\* the deferred function
TxDeferred ==
    /\ pg.tx.pc = "deferred"
    /\ LET t == pg.tx
       IN \/ /\ t.fn = "panic"
             /\ pg' = [pg EXCEPT !.tx = [t EXCEPT !.pc = "returned", !.ret = "panic",
                                                  !.rollbacks = @ + 1]]
          \/ /\ t.fn # "panic" /\ t.err # "nil"
             /\ pg' = [pg EXCEPT !.tx = [t EXCEPT !.pc = "returned",
                                                  !.rollbacks = @ + 1]]
          \/ /\ t.fn # "panic" /\ t.err = "nil"
             /\ \E ok \in BOOLEAN :
                  LET e == IF ok THEN "nil" ELSE "commit"
                  IN pg' = [pg EXCEPT !.tx =
                              [t EXCEPT !.pc = "returned", !.commits = @ + 1,
                                        !.committed = ok, !.err = e,
                                        !.ret = Returned(t.ret, e)]]
    /\ UNCHANGED <<req, tokens, hist, mongo>>

\* the caller has the result; the call is kept in the log
TxReturn ==
    /\ pg.tx.pc = "returned"
    /\ pg' = [pg EXCEPT !.tx = NoTx, !.log = Append(@, pg.tx)]
    /\ UNCHANGED <<req, tokens, hist, mongo>>

\* ------------------------------------------------ configuration service
\* users(id): the rows application_configs.user_id may refer to
Users == {1, 2}

\* values of the X-User-ID header: two users, absent, not an integer (read
\* as 0 like the absent one; the list handler is followed with both)
UserIdHeaders == {"1", "2", "", "abc"}

\* strconv.Atoi with its error dropped: 0 unless the text is an integer
Atoi(text) ==
    CASE text = "1" -> 1
      [] text = "2" -> 2
      [] OTHER -> 0

\* config_data JSONB: the text postgres gives back for a document
Jsonb(text) ==
    CASE text = "{\"k\":1}" -> "{\"k\": 1}"
      [] text = "{\"k\":2}" -> "{\"k\": 2}"
      [] OTHER -> text

\* bodies of ApplicationConfigCreateRequest; binding:"required" refuses the
\* last one
ConfigBodies ==
    {[name |-> "app", namespace |-> "default", configData |-> d] :
        d \in {"{\"k\":1}", "{\"k\":2}"}}
    \cup {[name |-> "other", namespace |-> "prod", configData |-> "{\"k\":2}"],
          [name |-> "", namespace |-> "default", configData |-> "{\"k\":1}"]}

ShouldBindJSON(body) ==
    body.name # "" /\ body.namespace # "" /\ body.configData # ""

\* WHERE name = $1 AND namespace = $2 AND user_id = $3
RowsOf(configs, name, namespace, userID) ==
    {r \in configs : r.name = name /\ r.namespace = namespace /\ r.user_id = userID}

\* UNIQUE(name, namespace, user_id)
NoUniqueConstraint(configs, name, namespace, userID) == FALSE
UniqueViolation(configs, name, namespace, userID) ==
    RowsOf(configs, name, namespace, userID) # {}

\* the error of the INSERT: "23505" unique_violation, "23503" the user_id
\* is not in users, "" none
InsertError(configs, name, namespace, userID) ==
    IF userID \notin Users THEN "23503"
    ELSE IF UniqueViolation(configs, name, namespace, userID) THEN "23505"
    ELSE ""

IsUniqueConstraintViolation(code) == code = "23505"

\* sql.ErrNoRows of UpdateApplicationConfig and DeleteApplicationConfig:
\* rowsAffected == 0
RowsAffectedUnchecked(rows) == FALSE
ErrNoRows(rows) == rows = {}

\* ListApplicationConfigs: the filters are left out for "" and for 0
ListRows(configs, namespace, userID) ==
    {r \in configs : /\ (namespace # "" => r.namespace = namespace)
                     /\ (userID # 0 => r.user_id = userID)}

\* a request of the service and its answer: the rows it read, changed or
\* deleted, whether it changed the table, and whether it ran apart from
\* the others (no update handler was between its statements, and for an
\* update no statement ran between its own)
ConfigOp(op, hdr, name, namespace, data, status, rows, changed) ==
    [op |-> op, hdr |-> hdr, name |-> name, namespace |-> namespace,
     data |-> data, status |-> status, rows |-> rows, changed |-> changed,
     direct |-> (pg.upd = NoUpd)]

ConfigOpsLeft == Len(pg.ops) < MaxConfigOps

\* Handlers.createApplicationConfig
createApplicationConfig ==
    /\ ConfigOpsLeft
    /\ \E hdr \in UserIdHeaders \ {"abc"}, body \in ConfigBodies :
         LET userID == Atoi(hdr)
             code == InsertError(pg.configs, body.name, body.namespace, userID)
             row == [id |-> pg.nextId, name |-> body.name,
                     namespace |-> body.namespace, user_id |-> userID,
                     config_data |-> Jsonb(body.configData)]
             entry(status, rows, changed) ==
                 ConfigOp("create", hdr, body.name, body.namespace,
                          body.configData, status, rows, changed)
         IN IF ~ShouldBindJSON(body)
            THEN pg' = [pg EXCEPT !.ops = Append(@, entry(StatusBadRequest, {}, FALSE))]
            ELSE IF code = ""
            THEN pg' = [pg EXCEPT !.configs = @ \cup {row},
                                  !.nextId = @ + 1,
                                  !.ops = Append(@, entry(StatusCreated, {row}, TRUE))]
            ELSE pg' = [pg EXCEPT !.nextId = @ + 1,
                                  !.ops = Append(@, entry(
                                      IF IsUniqueConstraintViolation(code)
                                      THEN StatusConflict
                                      ELSE StatusInternalServerError, {}, FALSE))]
    /\ UNCHANGED <<req, tokens, hist, mongo>>

\* Handlers.listApplicationConfigs
listApplicationConfigs ==
    /\ ConfigOpsLeft
    /\ \E hdr \in UserIdHeaders, namespace \in {"default", ""} :
         pg' = [pg EXCEPT !.ops = Append(@,
                  ConfigOp("list", hdr, "", namespace, "", StatusOK,
                           ListRows(pg.configs, namespace, Atoi(hdr)), FALSE))]
    /\ UNCHANGED <<req, tokens, hist, mongo>>

\* Handlers.getApplicationConfig
getApplicationConfig ==
    /\ ConfigOpsLeft
    /\ \E hdr \in UserIdHeaders \ {"abc"} :
         LET rows == RowsOf(pg.configs, "app", "default", Atoi(hdr))
         IN pg' = [pg EXCEPT !.ops = Append(@,
                     ConfigOp("get", hdr, "app", "default", "",
                              IF rows = {} THEN StatusNotFound ELSE StatusOK,
                              rows, FALSE))]
    /\ UNCHANGED <<req, tokens, hist, mongo>>

\* Handlers.updateApplicationConfig up to Client.UpdateApplicationConfig;
\* the name and namespace of the URL replace those of the body
updateApplicationConfig ==
    /\ ConfigOpsLeft
    /\ pg.upd = NoUpd
    /\ \E hdr \in UserIdHeaders \ {"abc"}, body \in ConfigBodies :
         LET name == "app"
             namespace == "default"
             userID == Atoi(hdr)
             rows == RowsOf(pg.configs, name, namespace, userID)
             entry(status, changed) ==
                 ConfigOp("update", hdr, name, namespace, body.configData,
                          status, rows, changed)
         IN IF ~ShouldBindJSON(body)
            THEN pg' = [pg EXCEPT !.ops = Append(@,
                          ConfigOp("update", hdr, name, namespace, body.configData,
                                   StatusBadRequest, {}, FALSE))]
            ELSE IF ErrNoRows(rows)
            THEN pg' = [pg EXCEPT !.ops = Append(@, entry(StatusNotFound, FALSE))]
            ELSE pg' = [pg EXCEPT
                          !.configs = (@ \ rows) \cup
                              {[r EXCEPT !.config_data = Jsonb(body.configData)] :
                                  r \in rows},
                          !.upd = [hdr |-> hdr, name |-> name,
                                   namespace |-> namespace,
                                   data |-> body.configData,
                                   rows |-> rows, at |-> Len(pg.ops)]]
    /\ UNCHANGED <<req, tokens, hist, mongo>>

\* Handlers.updateApplicationConfig from "Fetch the updated record" on
updateApplicationConfigFetch ==
    /\ pg.upd # NoUpd
    /\ LET u == pg.upd
           rows == RowsOf(pg.configs, u.name, u.namespace, Atoi(u.hdr))
       IN pg' = [pg EXCEPT
                   !.upd = NoUpd,
                   !.ops = Append(@,
                       [ConfigOp("update", u.hdr, u.name, u.namespace, u.data,
                                 IF rows = {} THEN StatusInternalServerError
                                 ELSE StatusOK, u.rows \cup rows, TRUE)
                            EXCEPT !.direct = (Len(pg.ops) = u.at)])]
    /\ UNCHANGED <<req, tokens, hist, mongo>>

\* Handlers.deleteApplicationConfig
deleteApplicationConfig ==
    /\ ConfigOpsLeft
    /\ \E hdr \in UserIdHeaders \ {"abc"} :
         LET rows == RowsOf(pg.configs, "app", "default", Atoi(hdr))
         IN pg' = [pg EXCEPT
                     !.configs = @ \ rows,
                     !.ops = Append(@,
                         ConfigOp("delete", hdr, "app", "default", "",
                                  IF ErrNoRows(rows) THEN StatusNotFound ELSE StatusOK,
                                  rows, rows # {}))]
    /\ UNCHANGED <<req, tokens, hist, mongo>>

\* -------------------------------------------------- mongodb repositories
\* the one id that is inserted, and one that never is
ObjectIDs == {"id1", "id2"}

\* a bson.M with one key
M(key, value) == [k \in {key} |-> value]

\* Application and Cluster documents as InsertApplication and InsertCluster
\* store them
Documents(collection) ==
    IF collection = "applications"
    THEN {[name |-> "app", namespace |-> "default",
           spec |-> [image |-> "nginx", replicas |-> r, targetClusters |-> <<"c1">>],
           status |-> [observedGeneration |-> 1, conditions |-> c,
                       deployments |-> <<>>],
           updatedAt |-> "t0"] : r \in {1, 3}, c \in {<<>>, <<"Ready">>}}
    ELSE {[name |-> "cl", namespace |-> "default",
           spec |-> [provider |-> "aws", region |-> g, nodeGroups |-> <<"ng1">>,
                     networking |-> "10.0.0.0/16", authentication |-> "role"],
           status |-> [observedGeneration |-> 1, conditions |-> c,
                       endpoint |-> "https://cl"],
           updatedAt |-> "t0"] : g \in {"us-east-1", "eu-west-1"},
                                 c \in {<<>>, <<"Ready">>}}

\* update documents a caller passes
Updates(collection) ==
    {M("$set", M("status", M("observedGeneration", 2))),
     M("$set", M("status", M("conditions", <<"Degraded">>))),
     M("$set", M("status.observedGeneration", 2)),
     M("$set", M("name", "renamed")),
     M("name", "renamed"),
     M("name", ""),
     M("namespace", "")}
    \cup (IF collection = "applications"
          THEN {M("$set", M("spec", M("image", "nginx:2"))),
                M("spec", M("image", ""))}
          ELSE {M("$set", M("spec", M("region", "ap-south-1"))),
                M("spec", M("provider", "")),
                M("spec", M("region", ""))})

\* the fields of spec and of status the repositories copy from the stored
\* document when the update has none
Preserved(collection, part) ==
    IF collection = "applications"
    THEN (IF part = "spec" THEN {"targetClusters"}
          ELSE {"conditions", "deployments"})
    ELSE (IF part = "spec" THEN {"nodeGroups", "networking", "authentication"}
          ELSE {"conditions"})

\* "Validate required fields": the error of UpdateApplication / UpdateCluster
RequiredFieldError(collection, update) ==
    LET empty(m, k) == k \in DOMAIN m /\ m[k] = ""
        inSpec(k) == "spec" \in DOMAIN update /\ empty(update["spec"], k)
    IN IF empty(update, "name") THEN "name cannot be empty"
       ELSE IF empty(update, "namespace") THEN "namespace cannot be empty"
       ELSE IF collection = "applications" /\ inSpec("image")
       THEN "spec.image cannot be empty"
       ELSE IF collection = "clusters" /\ inSpec("provider")
       THEN "spec.provider cannot be empty"
       ELSE IF collection = "clusters" /\ inSpec("region")
       THEN "spec.region cannot be empty"
       ELSE ""

\* the $set document the repositories hand to UpdateOne
SetFields(collection, existing, update) ==
    LET given == IF "$set" \in DOMAIN update THEN update["$set"] ELSE <<>>
        part(p) ==
            LET sub == IF p \in DOMAIN given THEN given[p] ELSE <<>>
            IN [k \in DOMAIN sub \cup Preserved(collection, p) |->
                   IF k \in DOMAIN sub THEN sub[k] ELSE existing[p][k]]
    IN [k \in DOMAIN given \cup {"spec", "status", "updatedAt"} |->
           IF k \in {"spec", "status"} THEN part(k)
           ELSE IF k = "updatedAt" THEN "t1"
           ELSE given[k]]

\* collection.UpdateOne with {"$set": set}: every field named is replaced by
\* the value given, a document by the document given; naming a field and one
\* of its parts is refused, as is any key of the update that is no operator
UpdateOne(doc, update, set) ==
    IF \/ DOMAIN update \ {"$set"} # {}
       \/ "status.observedGeneration" \in DOMAIN set /\ "status" \in DOMAIN set
    THEN [doc |-> doc, err |-> "write exception"]
    ELSE [doc |-> [k \in DOMAIN doc \cup DOMAIN set |->
                      IF k \in DOMAIN set THEN set[k] ELSE doc[k]],
          err |-> ""]

\* InsertApplication, InsertCluster
Insert(collection) ==
    /\ mongo[collection] = NoDoc
    /\ \E doc \in Documents(collection) :
         mongo' = [mongo EXCEPT ![collection] = doc]
    /\ UNCHANGED <<req, tokens, hist, pg>>

\* UpdateApplication, UpdateCluster
Update(collection) ==
    \E id \in ObjectIDs, update \in Updates(collection) :
        LET existing == IF id = "id1" THEN mongo[collection] ELSE NoDoc
            err == IF existing = NoDoc THEN "not found"
                   ELSE RequiredFieldError(collection, update)
            result == IF err # "" THEN [doc |-> existing, err |-> err]
                      ELSE UpdateOne(existing, update,
                                     SetFields(collection, existing, update))
        IN /\ mongo' = [mongo EXCEPT
                          ![collection] = IF id = "id1" THEN result.doc ELSE @,
                          !.last = [collection |-> collection, update |-> update,
                                    before |-> existing, after |-> result.doc,
                                    err |-> result.err]]
           /\ UNCHANGED <<req, tokens, hist, pg>>

InsertApplication == Insert("applications")
InsertCluster == Insert("clusters")
UpdateApplication == Update("applications")
UpdateCluster == Update("clusters")

\* ------------------------------------------------------ models.Validate
\* Application and Cluster values handed to Validate: the fields that carry
\* a rule, with one condition and one node group each
Structs ==
    {[kind |-> "Application", Name |-> n, Namespace |-> ns, Image |-> i,
      ConditionStatus |-> c] :
        n \in {"", "app"}, ns \in {"", "default"}, i \in {"", "nginx"},
        c \in {"True", "Bogus"}}
    \cup {[kind |-> "Cluster", Name |-> n, Namespace |-> ns, Provider |-> p,
           Region |-> r, MinSize |-> m] :
        n \in {"", "cl"}, ns \in {"", "default"},
        p \in {"aws", "", "digitalocean"}, r \in {"", "us-east-1"},
        m \in {0, 1}}

\* validator.Struct: the failed fields in the order of the struct. Conditions
\* and NodeGroups carry no tag (no "dive"), their elements are not visited.
FieldErrors(v) ==
    LET failed(field, tag, bad) ==
            IF bad THEN <<[StructField |-> field, Tag |-> tag]>> ELSE <<>>
    IN failed("Name", "required", v.Name = "")
       \o failed("Namespace", "required", v.Namespace = "")
       \o (IF v.kind = "Application"
           THEN failed("Image", "required", v.Image = "")
           ELSE failed("Provider", "oneof", v.Provider \notin {"aws", "gcp", "azure"})
                \o failed("Region", "required", v.Region = ""))

\* the switch of Validate: the error returned for a failed field, "" when
\* the loop goes on
SwitchError(kind, e) ==
    IF kind = "Application"
    THEN CASE e.StructField = "Name" -> "ErrEmptyAppName"
           [] e.StructField = "Image" -> "ErrEmptyImage"
           [] e.StructField = "Status" /\ e.Tag = "oneof" -> "ErrInvalidStatus"
           [] OTHER -> ""
    ELSE CASE e.StructField = "Name" -> "ErrEmptyClusterName"
           [] e.StructField = "Provider" /\ e.Tag = "required" -> "ErrEmptyProvider"
           [] e.StructField = "Provider" /\ e.Tag = "oneof" -> "ErrInvalidProvider"
           [] e.StructField = "Region" -> "ErrEmptyRegion"
           [] OTHER -> ""

\* Application.Validate, Cluster.Validate: the first error the switch
\* returns, nil when it returns none
Validate(v) ==
    LET returned == SelectSeq(FieldErrors(v),
                              LAMBDA e : SwitchError(v.kind, e) # "")
    IN IF returned = <<>> THEN "nil" ELSE SwitchError(v.kind, returned[1])

ValidateOf(kind) ==
    /\ mongo.validated.struct.kind = kind
    /\ mongo.validated.err = "unset"
    /\ mongo' = [mongo EXCEPT !.validated.err = Validate(mongo.validated.struct)]
    /\ UNCHANGED <<req, tokens, hist, pg>>

ApplicationValidate == ValidateOf("Application")
ClusterValidate == ValidateOf("Cluster")

\* ------------------------------------------------------- specifications
Init ==
    /\ req = [s \in Slots |-> IdleCtx]
    /\ tokens = BucketCap
    /\ hist = InitHist
    /\ pg = InitPg
    /\ mongo = InitMongo

\* the gateway as main wires it
Next ==
    \/ \E s \in Slots : Arrive(s)
    \/ \E s \in Slots : RateLimitStep(s)
    \/ Tick
    \/ \E s \in Slots : Health(s)
    \/ \E s \in Slots : Promhttp(s)
    \/ \E s \in Slots : Proxy(s)
    \/ \E s \in Slots : ProxyRelays(s)
    \/ \E s \in Slots : ProxyFails(s)

Spec == Init /\ [][Next]_vars

\* the gateway as main wires it, under the load of LoadInbound
NextLoad ==
    \/ \E s \in Slots : ArriveLoad(s)
    \/ \E s \in Slots : RateLimitStep(s)
    \/ Tick
    \/ \E s \in Slots : Health(s)
    \/ \E s \in Slots : Proxy(s)
    \/ \E s \in Slots : ProxyRelays(s)
    \/ \E s \in Slots : ProxyFails(s)

SpecLoad == Init /\ [][NextLoad]_vars

\* the gateway as main wires it, receiving the requests of RoutingInbound
NextRouting ==
    \/ \E s \in Slots : ArriveRouting(s)
    \/ \E s \in Slots : RateLimitStep(s)
    \/ Tick
    \/ \E s \in Slots : Proxy(s)
    \/ \E s \in Slots : ProxyRelays(s)
    \/ \E s \in Slots : ProxyFails(s)

SpecRouting == Init /\ [][NextRouting]_vars

\* the gateway as main wires it, with handlers that may panic
NextPanic ==
    \/ \E s \in Slots : ArrivePanic(s)
    \/ \E s \in Slots : RateLimitStep(s)
    \/ Tick
    \/ \E s \in Slots : Proxy(s)
    \/ \E s \in Slots : ProxyRelays(s)
    \/ \E s \in Slots : ProxyFails(s)
    \/ \E s \in Slots : Panic(s)

SpecPanic == Init /\ [][NextPanic]_vars

\* the handlers of authGroup, run on requests for a proxied route
NextAuth ==
    \/ \E s \in Slots : ArriveAuthGroup(s)
    \/ \E s \in Slots : RateLimitStep(s)
    \/ Tick
    \/ \E s \in Slots : AuthStep(s)
    \/ \E s \in Slots : AuthTransportError(s)
    \/ \E s \in Slots : AuthRejected(s)
    \/ \E s \in Slots : AuthDecodeError(s)
    \/ \E s \in Slots : AuthAccepted(s)
    \/ \E s \in Slots : Proxy(s)
    \/ \E s \in Slots : ProxyRelays(s)
    \/ \E s \in Slots : ProxyFails(s)

SpecAuth == Init /\ [][NextAuth]_vars

\* the handlers of authGroup, run on requests that carry a credential
NextAuthCall ==
    \/ \E s \in Slots : ArriveAuthCall(s)
    \/ \E s \in Slots : RateLimitStep(s)
    \/ Tick
    \/ \E s \in Slots : AuthStep(s)
    \/ \E s \in Slots : AuthTransportError(s)
    \/ \E s \in Slots : AuthRejected(s)
    \/ \E s \in Slots : AuthDecodeError(s)
    \/ \E s \in Slots : AuthAccepted(s)
    \/ \E s \in Slots : Proxy(s)
    \/ \E s \in Slots : ProxyRelays(s)
    \/ \E s \in Slots : ProxyFails(s)

SpecAuthCall == Init /\ [][NextAuthCall]_vars

\* the handlers of authGroup, with clients that may disconnect while a
\* call to the identity service or to the upstream is in flight
NextCancel ==
    \/ \E s \in Slots : ArriveAuthGood(s)
    \/ \E s \in Slots : RateLimitStep(s)
    \/ Tick
    \/ \E s \in Slots : AuthStep(s)
    \/ \E s \in Slots : AuthTransportError(s)
    \/ \E s \in Slots : AuthDecodeError(s)
    \/ \E s \in Slots : AuthAccepted(s)
    \/ \E s \in Slots : Proxy(s)
    \/ \E s \in Slots : ProxyRelays(s)
    \/ \E s \in Slots : ProxyFails(s)
    \/ \E s \in Slots : ClientDisconnects(s)

SpecCancel == Init /\ [][NextCancel]_vars

\* the steps of the request in slot s that need no answer from outside: the
\* handlers' own steps and the timers of the two calls
OwnStep(s) ==
    \/ RateLimitStep(s)
    \/ AuthStep(s)
    \/ AuthTimesOut(s)
    \/ Proxy(s)
    \/ ProxyTimesOut(s)

\* the handlers of authGroup with an identity service and an upstream
\* that may never answer.  A request's own steps are taken (its goroutine
\* is scheduled, the timers fire); nothing is assumed of the two services.
NextTimeout ==
    \/ \E s \in Slots : ArriveAuthGood(s)
    \/ \E s \in Slots : RateLimitStep(s)
    \/ Tick
    \/ \E s \in Slots : AuthStep(s)
    \/ \E s \in Slots : AuthAccepted(s)
    \/ \E s \in Slots : AuthTimesOut(s)
    \/ \E s \in Slots : Proxy(s)
    \/ \E s \in Slots : ProxyRelays(s)
    \/ \E s \in Slots : ProxyTimesOut(s)

SpecTimeout ==
    /\ Init
    /\ [][NextTimeout]_vars
    /\ \A s \in Slots : WF_vars(OwnStep(s))

\* callers of Client.ExecuteInTransaction, one call after the other
NextTx ==
    \/ TxBegin
    \/ TxFn
    \/ TxDeferred
    \/ TxReturn

SpecTx == Init /\ [][NextTx]_vars

\* the configuration service: its handlers run concurrently, every
\* statement on application_configs is atomic
NextConfig ==
    \/ createApplicationConfig
    \/ listApplicationConfigs
    \/ getApplicationConfig
    \/ updateApplicationConfig
    \/ updateApplicationConfigFetch
    \/ deleteApplicationConfig

SpecConfig == Init /\ [][NextConfig]_vars

\* callers of the application and cluster repositories
NextMongo ==
    \/ InsertApplication
    \/ InsertCluster
    \/ UpdateApplication
    \/ UpdateCluster

SpecMongo == Init /\ [][NextMongo]_vars

\* Validate called on any Application or Cluster
InitValidate ==
    /\ req = [s \in Slots |-> IdleCtx]
    /\ tokens = BucketCap
    /\ hist = InitHist
    /\ pg = InitPg
    /\ \E v \in Structs :
         mongo = [InitMongo EXCEPT !.validated = [struct |-> v, err |-> "unset"]]

NextValidate ==
    \/ ApplicationValidate
    \/ ClusterValidate

SpecValidate == InitValidate /\ [][NextValidate]_vars

\* the REST API service
NextApiServer ==
    \/ \E s \in Slots : ArriveApiServer(s)
    \/ \E s \in Slots : Health(s)
    \/ \E s \in Slots : Promhttp(s)
    \/ \E s \in Slots : ProxyRequest(s)
    \/ \E s \in Slots : ProxyRequestRelays(s)
    \/ \E s \in Slots : ProxyRequestFails(s)

SpecApiServer == Init /\ [][NextApiServer]_vars

TypeOK ==
    /\ tokens \in 0..BucketCap
    /\ \A s \in Slots : req[s].pc \in {"idle", "down", "callId", "callUp", "done"}

\* ---------------------------------------------------------------- claims
ProxiedPaths == { ServiceRoutes[i].FullPath : i \in 1..Len(ServiceRoutes) }
IsProxied(c) == c.fullPath \in ProxiedPaths
Done(c) == c.pc = "done"

\* the Authorization header carries the Bearer scheme and a non-empty token
HasBearerCredential(hdr) ==
    /\ hdr # <<>>
    /\ IsPrefix(Bearer, hdr[1])
    /\ Len(hdr[1]) > Len(Bearer)

\* C1: a call to the upstream is made for a request only after the rate
\* limiter admitted that request and the auth middleware authenticated it.
C1_UpstreamOnlyAfterAuth ==
    \A s \in Slots :
        req[s].upCalls > 0 => req[s].admitted = "yes" /\ req[s].user # "none"

\* C2: an admitted request for a proxied route without Authorization header
\* is answered 401, with no call to the identity service and none to an upstream.
C2_NoHeaderIs401 ==
    \A s \in Slots :
        (IsProxied(req[s]) /\ req[s].hdr = NoHeader /\ req[s].admitted = "yes") =>
            /\ req[s].idCalls = 0
            /\ req[s].upCalls = 0
            /\ Done(req[s]) => req[s].status = StatusUnauthorized

\* C3: an admitted request for a proxied route whose credential the identity
\* service answers with a non-200 status is answered 401 and no upstream call
\* is made for it.
C3_RejectedCredentialIs401 ==
    \A s \in Slots :
        (/\ IsProxied(req[s])
         /\ HasBearerCredential(req[s].hdr)
         /\ ~IdentityAccepts(GetHeader(req[s].hdr))
         /\ req[s].admitted = "yes") =>
            /\ req[s].upCalls = 0
            /\ Done(req[s]) => req[s].status = StatusUnauthorized

\* C4: the auth step makes no call to the identity service for a request
\* that presents no bearer credential (no header, an empty header, "Bearer "
\* with an empty token, a scheme other than Bearer), and answers it 401.
C4_NoBearerNoIdentityCall ==
    \A s \in Slots :
        (req[s].pc # "idle" /\ ~HasBearerCredential(req[s].hdr)) =>
            /\ req[s].idCalls = 0
            /\ (Done(req[s]) /\ req[s].admitted = "yes") => req[s].status = StatusUnauthorized

\* C5: from a full bucket of capacity N, of the requests checked before a
\* refill interval has passed exactly the first N are admitted and the next
\* are refused; once exactly one interval has passed over an empty bucket,
\* exactly one further request is admitted.
C5_BurstThenOnePerInterval ==
    /\ hist.fullTicks < TicksPerInterval =>
          hist.fullAdmits = Min(hist.fullChecks, RateLimit)
    /\ hist.anch =>
          hist.eAdmits = (IF hist.eTicks = TicksPerInterval /\ hist.eChecks >= 1
                          THEN 1 ELSE 0)

\* a burst of N+1 checks on the full bucket admitted N, an interval passed
\* over the empty bucket, and of two further checks one was admitted
C5_Witness ==
    /\ hist.fullChecks = RateLimit + 1
    /\ hist.fullAdmits = RateLimit
    /\ hist.anch
    /\ hist.eTicks = TicksPerInterval
    /\ hist.eChecks = 2
    /\ hist.eAdmits = 1
    /\ \E s \in Slots : req[s].admitted = "no" /\ req[s].status = StatusTooManyRequests

\* C6: with requests checked concurrently, the bucket stays within
\* 0..capacity and the requests admitted since the last refill step never
\* outnumber the whole tokens the bucket held after it.
C6_BucketNeverOverdrawn ==
    /\ tokens \in 0..BucketCap
    /\ hist.admitted <= hist.avail

\* two requests were in flight, the last token went to one of them, which is
\* still being served, and the other was refused
C6_Witness ==
    \E s1, s2 \in Slots :
        /\ s1 # s2
        /\ req[s1].admitted = "yes" /\ req[s1].pc = "callUp"
        /\ req[s2].admitted = "no" /\ Done(req[s2])
        /\ hist.avail >= 1
        /\ hist.admitted = hist.avail
        /\ tokens < TicksPerInterval

\* C7: the limiter decides before anything else is done for a request, and a
\* refusal is final: a refused request is answered 429 at once, calls
\* neither the identity service nor an upstream, and only an admitted request
\* reaches a later handler.
C7_RefusalIsFinal ==
    \A s \in Slots :
        /\ req[s].admitted = "no" =>
              /\ Done(req[s])
              /\ req[s].status = StatusTooManyRequests
              /\ req[s].idCalls = 0
              /\ req[s].upCalls = 0
        /\ ( \/ req[s].idCalls > 0
             \/ req[s].upCalls > 0
             \/ req[s].pc \in {"callId", "callUp"}
             \/ (req[s].pc = "down" /\ req[s].chain[req[s].idx] # "ratelimit")
             \/ (Done(req[s]) /\ req[s].status # StatusTooManyRequests) )
           => req[s].admitted = "yes"

\* a request for a proxied route was refused by the limiter and is over
C7_Witness ==
    \E s \in Slots :
        /\ IsProxied(req[s])
        /\ req[s].admitted = "no"
        /\ Done(req[s])
        /\ req[s].status = StatusTooManyRequests
        /\ req[s].upCalls = 0
        /\ req[s].logLines = 1

\* C8: every request that is over has produced exactly one log line and
\* exactly one metrics observation (one counter increment, one sample).
C8_OneLogOneObservation ==
    \A s \in Slots :
        Done(req[s]) =>
            /\ req[s].logLines = 1
            /\ Len(req[s].obs) = 1
            /\ Len(req[s].samples) = 1

\* C9: GET /health is answered 200 whatever the bucket holds, without a
\* check by the limiter, a call to the identity service or an increment of
\* the request counter.
C9_HealthBypassesPipeline ==
    \A s \in Slots :
        (req[s].pc # "idle" /\ req[s].method = "GET" /\ req[s].path = <<"health">>) =>
            /\ req[s].admitted = "unchecked"
            /\ req[s].idCalls = 0
            /\ req[s].obs = <<>>
            /\ Done(req[s]) => req[s].status = StatusOK

\* C10: when the call to the upstream fails in transport the client gets 503
\* and exactly one observation, with status 503, is recorded.
C10_TransportFailureIs503 ==
    \A s \in Slots :
        (Done(req[s]) /\ req[s].upErr) =>
            /\ req[s].status = StatusServiceUnavailable
            /\ Len(req[s].obs) = 1
            /\ req[s].obs[1][3] = StatusServiceUnavailable

\* the base URL of the upstream that the route serving c stands for
UpstreamURL(c) ==
    IF c.route \in {"deployments", "monitoring", "configs"}
    THEN TargetBaseUrl(c.route)
    ELSE RouteNamed(c.route).URL

\* the path of c after the prefix of the route that serves it
SuffixPath(c) == PathString(SubSeq(c.path, Len(c.base) + 1, Len(c.path)))

\* C11: the outbound request keeps the method and goes to the route's base
\* URL followed by the suffix path, followed by "?" and the query string
\* exactly when the query string is not empty.
C11_TargetIsBaseSuffixQuery ==
    \A s \in Slots :
        req[s].upCalls > 0 =>
            /\ req[s].out.method = req[s].method
            /\ req[s].out.url =
                  UpstreamURL(req[s]) \o SuffixPath(req[s]) \o
                  (IF req[s].query # <<>> THEN <<"?">> \o req[s].query ELSE <<>>)

\* the routes of main whose prefix the path starts with
FittingRoutes(path) ==
    { i \in 1..Len(ServiceRoutes) : IsPrefix(ServiceRoutes[i].PathBase, path) }

\* the first registered among the routes with the longest fitting prefix
LongestPrefixRoute(path) ==
    CHOOSE i \in FittingRoutes(path) :
        \A j \in FittingRoutes(path) :
            \/ Len(ServiceRoutes[j].PathBase) < Len(ServiceRoutes[i].PathBase)
            \/ Len(ServiceRoutes[j].PathBase) = Len(ServiceRoutes[i].PathBase) /\ i <= j

\* C12: a request is dispatched to the route with the longest prefix of its
\* path (first registered on ties) whenever that route lists its method, and
\* a request whose path no prefix fits is answered 404 without upstream call.
C12_LongestPrefixWins ==
    \A s \in Slots :
        req[s].pc # "idle" =>
            IF FittingRoutes(req[s].path) = {}
            THEN req[s].route = "" /\ req[s].upCalls = 0 /\
                 (Done(req[s]) => req[s].status = 404)
            ELSE LET r == ServiceRoutes[LongestPrefixRoute(req[s].path)]
                 IN req[s].method \in r.Methods => req[s].route = r.Name

\* the routes of main whose prefix is the whole path and that list the method
RoutesAt(method, path) ==
    { i \in 1..Len(ServiceRoutes) :
        ServiceRoutes[i].PathBase = path /\ method \in ServiceRoutes[i].Methods }

\* C13: a request whose path is exactly the prefix of a route, once past the
\* rate limiter, is forwarded with the suffix "/": the upstream is called
\* once, at the route's base URL followed by "/".
C13_EmptySuffixIsSlash ==
    \A s \in Slots :
        \A i \in RoutesAt(req[s].method, req[s].path) :
            (Done(req[s]) /\ req[s].admitted # "no") =>
                /\ req[s].upCalls = 1
                /\ req[s].out.url = ServiceRoutes[i].URL \o <<"/">>

\* C14: a request whose path has the prefix of a route that does not list
\* its method is answered 405 and never forwarded; a request whose method
\* the route lists is not refused for its method or path.
C14_UnlistedMethodIs405 ==
    \A s \in Slots :
        (req[s].pc # "idle" /\ FittingRoutes(req[s].path) # {}) =>
            LET r == ServiceRoutes[LongestPrefixRoute(req[s].path)]
            IN IF req[s].method \in r.Methods
               THEN Done(req[s]) => req[s].status \notin {404, 405}
               ELSE /\ req[s].upCalls = 0
                    /\ Done(req[s]) /\ req[s].admitted # "no" => req[s].status = 405

\* the auth step of c ended on an error of the call to the identity service
\* (transport) or on a 200 answer whose body did not decode
AuthCallFailed(c) ==
    c.errLog \in {"Auth service request failed", "Failed to decode auth response"}

\* C15: a request whose identity call fails at the transport, or is answered
\* 200 with a body that does not decode, gets exactly one response, a 500; it
\* is aborted, no upstream call is made, the identity service was called
\* exactly once and no identity is attached.
C15_AuthFailureIs500Once ==
    \A s \in Slots :
        AuthCallFailed(req[s]) =>
            /\ Done(req[s])
            /\ req[s].status = StatusInternalServerError
            /\ req[s].responses = 1
            /\ req[s].aborted
            /\ req[s].upCalls = 0
            /\ req[s].idCalls = 1
            /\ req[s].user = "none"

\* both failures have happened, each to an admitted request
C15_Witness ==
    \E s, t \in Slots :
        /\ req[s].errLog = "Auth service request failed"
        /\ req[t].errLog = "Failed to decode auth response"
        /\ req[s].admitted = "yes" /\ req[t].admitted = "yes"

\* C16: the outbound request of an authenticated request whose claims hold a
\* string "sub" carries X-User-ID with that subject, the inbound headers, and
\* X-Forwarded-For, X-Forwarded-Proto and X-Forwarded-Host with the client's
\* address, the scheme of the original request and its host.
C16_ForwardedHeaders ==
    \A s \in Slots :
        (req[s].upCalls > 0 /\ req[s].user = "sub:u1") =>
            /\ req[s].out.header["X-User-ID"] = <<"u1">>
            /\ req[s].out.header["Authorization"] = req[s].hdr
            /\ req[s].out.header["X-Request-Id"] = req[s].xRequestId
            /\ req[s].out.header["X-Forwarded-For"] = <<req[s].conn.remote>>
            /\ req[s].out.header["X-Forwarded-Proto"] = <<req[s].conn.scheme>>
            /\ req[s].out.header["X-Forwarded-Host"] = <<req[s].conn.host>>

\* a request that met no panic of its own got one response and one log line
ServedNormally(c) ==
    /\ c.responses = 1
    /\ c.logLines = 1
    /\ c.status \in {StatusOK, StatusTooManyRequests, StatusServiceUnavailable}

C18_SameClassSameAnswer ==
    \A s, t \in Slots :
        (Done(req[s]) /\ Done(req[t]) /\ req[s].errLog # "" /\
         req[s].errLog = req[t].errLog) =>
            /\ req[s].status = req[t].status
            /\ req[s].body = req[t].body

\* c was proxied to its upstream and the upstream's answer was relayed
Relayed(c) ==
    /\ Done(c) /\ IsProxied(c)
    /\ ~c.aborted /\ ~c.upErr /\ ~c.panicked

\* C19: nothing is cached and nothing is retried: two completed runs of the
\* same proxied request make two calls to the identity service, two calls to
\* the upstream and two metrics observations, and no request ever calls the
\* identity service or its upstream more than once.
C19_NoCacheNoRetry ==
    /\ \A s \in Slots : req[s].idCalls <= 1 /\ req[s].upCalls <= 1
    /\ \A s, t \in Slots :
          (s # t /\ Relayed(req[s]) /\ Relayed(req[t]) /\
           req[s].method = req[t].method /\ req[s].path = req[t].path /\
           req[s].hdr = req[t].hdr) =>
              /\ req[s].idCalls + req[t].idCalls = 2
              /\ req[s].upCalls + req[t].upCalls = 2
              /\ Len(req[s].obs) + Len(req[t].obs) = 2

C21_EveryRequestTerminates ==
    /\ [](\A s \in Slots :
            /\ Done(req[s]) => req[s].responses = 1
            /\ req[s].timedOut =>
                  /\ Done(req[s])
                  /\ req[s].status \in {StatusInternalServerError,
                                         StatusServiceUnavailable})
    /\ \A s \in Slots : (req[s].pc \notin {"idle", "done"}) ~> Done(req[s])

\* the deadline of the identity call ended one request and the deadline of
\* the upstream call another
C21_Witness ==
    \E s, t \in Slots :
        /\ Done(req[s]) /\ req[s].timedOut /\ req[s].upCalls = 0
        /\ req[s].status = StatusInternalServerError
        /\ Done(req[t]) /\ req[t].timedOut /\ req[t].upCalls = 1
        /\ req[t].status = StatusServiceUnavailable

\* C22: every metrics observation of a request carries as route label the
\* route the request matched, and the label "unknown" when it matched none;
\* a request that matched a route is never counted under "unknown" or "".
C22_RouteLabel ==
    \A s \in Slots :
        \A i \in 1..Len(req[s].obs) :
            LET o == req[s].obs[i]
                label == IF "metricsApi" \in { req[s].chain[j] : j \in 1..Len(req[s].chain) }
                         THEN o[1] ELSE o[2]
            IN IF req[s].route = "" THEN label = "unknown"
               ELSE label \notin {"unknown", ""}

\* C23: the X-User-ID that an upstream receives is the subject the gateway
\* established for the request, and none when it established none; what
\* the client sent as X-User-ID never reaches the upstream.
C23_UserIdIsTheGateways ==
    \A s \in Slots :
        req[s].upCalls > 0 =>
            req[s].out.header["X-User-ID"] =
                (IF req[s].user = "sub:u1" THEN <<"u1">> ELSE <<>>)

\* C24: a call of ExecuteInTransaction that began a transaction ended it
\* exactly once, by Commit iff fn returned nil and by Rollback iff fn
\* returned an error or panicked (the panic is raised again), and the caller
\* receives nil only if the transaction was committed.
C24_TxEndsOnceAndNilMeansCommitted ==
    \A i \in 1..Len(pg.log) :
        LET t == pg.log[i]
        IN /\ t.fn # "none" => t.commits + t.rollbacks = 1
           /\ t.commits = 1 <=> t.fn = "nil"
           /\ t.rollbacks = 1 <=> t.fn \in {"fn", "panic"}
           /\ t.fn = "panic" => t.ret = "panic"
           /\ t.fn = "none" => t.ret = "begin"
           /\ t.fn = "fn" => t.ret = "fn"
           /\ t.ret = "nil" => t.committed

\* C25: every config a request reads, modifies or deletes is owned by the
\* user of the request's X-User-ID; a request whose X-User-ID is missing or
\* not an integer touches no config.
C25_TenantIsolation ==
    \A i \in 1..Len(pg.ops) :
        \A r \in pg.ops[i].rows :
            /\ pg.ops[i].hdr \in {"1", "2"}
            /\ r.user_id = Atoi(pg.ops[i].hdr)

\* C26: the store never holds two configs with the same (name, namespace,
\* user_id); a create whose key is already stored answers 409 and leaves
\* the store as it was; no statement changes the name, namespace or owner
\* of a stored config.
C26_OneConfigPerKey ==
    /\ [](\A r1, r2 \in pg.configs :
             (r1.name = r2.name /\ r1.namespace = r2.namespace
                /\ r1.user_id = r2.user_id) => r1 = r2)
    /\ [][/\ Len(pg.ops') = Len(pg.ops) + 1 =>
               LET e == pg.ops'[Len(pg.ops')]
               IN (/\ e.op = "create"
                   /\ e.status # StatusBadRequest
                   /\ RowsOf(pg.configs, e.name, e.namespace, Atoi(e.hdr)) # {})
                  => e.status = StatusConflict /\ pg.configs' = pg.configs
           /\ \A r1 \in pg.configs : \A r2 \in pg.configs' :
                 r1.id = r2.id => /\ r1.name = r2.name
                                  /\ r1.namespace = r2.namespace
                                  /\ r1.user_id = r2.user_id]_vars

\* a create refused with 409 and an update that rewrote a stored config
C26_Witness ==
    /\ \E i \in 1..Len(pg.ops) :
          pg.ops[i].op = "create" /\ pg.ops[i].status = StatusConflict
    /\ \E i \in 1..Len(pg.ops) :
          pg.ops[i].op = "update" /\ pg.ops[i].changed

C28_UpdatePreservesUnmentioned ==
    LET u == mongo.last
        given == IF "$set" \in DOMAIN u.update THEN u.update["$set"] ELSE <<>>
        named(p, f) ==
            \/ p \in DOMAIN given /\ f \in DOMAIN given[p]
            \/ p = "status" /\ f = "observedGeneration"
                  /\ "status.observedGeneration" \in DOMAIN given
    IN u.collection # "" =>
         IF u.before = NoDoc \/ u.err \in {"not found", "name cannot be empty",
                "namespace cannot be empty", "spec.image cannot be empty",
                "spec.provider cannot be empty", "spec.region cannot be empty"}
         THEN u.after = u.before
         ELSE /\ \A p \in {"spec", "status"} : \A f \in DOMAIN u.before[p] :
                    ~named(p, f) =>
                        /\ f \in DOMAIN u.after[p]
                        /\ u.after[p][f] = u.before[p][f]
              /\ \A k \in {"name", "namespace"} :
                    k \notin DOMAIN given => u.after[k] = u.before[k]

\* C29: Validate returns an error whenever the value breaks one of its
\* declared rules (empty Name, Namespace, Spec.Image or Region, a condition
\* status outside True/False/Unknown, a provider outside aws/gcp/azure, a
\* node group with MinSize < 1), and nil only when every rule is kept.
C29_ValidateRefusesEveryViolation ==
    LET v == mongo.validated.struct
        violates ==
            \/ v.Name = "" \/ v.Namespace = ""
            \/ v.kind = "Application" /\
                  (v.Image = "" \/ v.ConditionStatus \notin {"True", "False", "Unknown"})
            \/ v.kind = "Cluster" /\
                  (\/ v.Provider \notin {"aws", "gcp", "azure"}
                   \/ v.Region = "" \/ v.MinSize < 1)
    IN mongo.validated.err \notin {"", "unset"} =>
           (mongo.validated.err = "nil" <=> ~violates)

====
